---- MODULE Spec2Model ----
(***************************************************************************)
(* A model of deploy_infer.py: the detection pipeline of Paddle-YOLOv4.   *)
(* Config loading, Detector construction, the transform operators,        *)
(* create_inputs, the warmup/timed-repeat loops of Detector.predict, the   *)
(* output classification loop, the "no object" sentinel and postprocess.   *)
(*                                                                         *)
(* Numbers: Python floats are modelled as exact rationals <<num, den>>     *)
(* with den > 0 (scales), pixel values and scores as integers.             *)
(* Strings that the code searches (arch) are sequences of characters.      *)
(***************************************************************************)
EXTENDS Integers, Sequences, FiniteSets, TLC

VARIABLES
    env,        \* the files and arguments the process is started with
    pc,         \* position of the process in its life cycle
    config,     \* the Config object (Config.__init__)
    detector,   \* the Detector object (Detector.__init__)
    error,      \* the exception that ended the process, if any
    calls,      \* number of predict calls that have returned
    inputs,     \* predict: inputs, im_info of Detector.preprocess
    i,          \* predict: loop counter of the warmup / repeats loop
    clock,      \* time.time()
    timer,      \* predict: t1, t2 and the latency that was printed
    locals,     \* predict: the local names outs, boxes, scores, classes
    results,    \* predict: the value returned
    events,     \* history: what the current predict call did, in order
    args,       \* direct call of one function: its arguments
    ret         \* direct call of one function: its return value

vars == <<env, pc, config, detector, error, calls, inputs, i, clock, timer,
          locals, results, events, args, ret>>

lifecycleVars == <<env, pc, config, detector, error, calls, inputs, i, clock,
                   timer, locals, results, events>>

----------------------------------------------------------------------------
(* Bounds of the model.                                                    *)

MaxDim == 3
MaxTarget == 3
MaxSize == 4
MaxStride == 3
MaxChannels == 2
MaxDetections == 2
MaxWarmup == 2
MaxRepeats == 2
MaxFrames == 2

----------------------------------------------------------------------------
(* Numbers.                                                                *)

Min2(a, b) == IF a <= b THEN a ELSE b
Max2(a, b) == IF a >= b THEN a ELSE b

\* float(a) / float(b)
Rat(a, b) == <<a, b>>
RatEq(x, y) == x[1] * y[2] = y[1] * x[2]
RatMulInt(x, n) == <<x[1] * n, x[2]>>

\* np.round / cvRound of a non-negative rational: to nearest, ties to even
RoundHalfEven(x) ==
    LET q == x[1] \div x[2]
        r == x[1] % x[2]
    IN  IF 2 * r < x[2] THEN q
        ELSE IF 2 * r > x[2] THEN q + 1
        ELSE IF q % 2 = 0 THEN q ELSE q + 1

\* int(x) of a non-negative rational: truncation
IntOf(x) == x[1] \div x[2]

\* int(np.ceil(float(n) / stride) * stride), stride > 0
PadToOffByOne(n, stride) == ((n \div stride) + 1) * stride
PadTo(n, stride) == ((n + stride - 1) \div stride) * stride

----------------------------------------------------------------------------
(* Strings: arch is a sequence of characters; `sub in s` is a substring    *)
(* search.                                                                 *)

YOLO == <<"Y", "O", "L", "O">>
SSD == <<"S", "S", "D">>
RetinaNet == <<"R", "e", "t", "i", "n", "a", "N", "e", "t">>
RCNN == <<"R", "C", "N", "N">>
Face == <<"F", "a", "c", "e">>

RECURSIVE FindFrom(_, _, _)
FindFrom(sub, s, k) ==
    IF k + Len(sub) - 1 > Len(s) THEN FALSE
    ELSE IF SubSeq(s, k, k + Len(sub) - 1) = sub THEN TRUE
    ELSE FindFrom(sub, s, k + 1)

\* Python's `sub in s` on strings
StrIn(sub, s) == FindFrom(sub, s, 1)

\* arch strings the model is run with
ArchSamples ==
    { <<"Y", "O", "L", "O", "v", "4">>,
      SSD,
      RetinaNet,
      RCNN,
      <<"M", "a", "s", "k">> \o RCNN,
      Face \o <<"B", "o", "x", "e", "s">>,
      <<"y", "o", "l", "o">>,
      <<"T", "T", "F", "N", "e", "t">>,
      <<"Y", "O", "L">> }

----------------------------------------------------------------------------
(* Images: a numpy array of rank 3, shape and elements.                    *)

Idx(shape) == (1..shape[1]) \X (1..shape[2]) \X (1..shape[3])

\* test images: uniform, every element different, and one with zeros in it
Uniform(shape) == [shape |-> shape, at |-> [p \in Idx(shape) |-> 7]]
Coded(shape) ==
    [shape |-> shape,
     at |-> [p \in Idx(shape) |-> 100 * p[1] + 10 * p[2] + p[3]]]
Checkerboard(shape) ==
    [shape |-> shape, at |-> [p \in Idx(shape) |-> (p[1] + p[2] + p[3]) % 2]]

TestImages(shape) == {Uniform(shape), Coded(shape), Checkerboard(shape)}

\* im_info of Detector.preprocess after decode_image
DecodedInfo(hw) == [scale |-> Rat(1, 1), origin_shape |-> hw, resize_shape |-> hw]

\* Python's None (also: a variable that holds nothing yet)
NoValue == [kind |-> "none"]

\* what a transform operator returns: the pair (im, im_info), or one array
Pair(im, info) == [kind |-> "pair", im |-> im, im_info |-> info]
Single(im) == [kind |-> "array", im |-> im]
Raise(type) == [kind |-> "raise", type |-> type]

----------------------------------------------------------------------------
(* Resize.                                                                 *)

scale_set == {RCNN, RetinaNet}

\* Resize.__init__
ResizeInit(arch, target_size, max_size, use_cv2, image_shape) ==
    \* `self.image_shape = image_shape,` stores the 1-tuple (image_shape,)
    [type |-> "Resize", target_size |-> target_size, max_size |-> max_size,
     image_shape |-> [kind |-> "tuple", items |-> <<image_shape>>],
     arch |-> arch, use_cv2 |-> use_cv2]

\* the clamp of generate_scale
ClampScaleByMin(self, size_min, size_max) == Rat(self.max_size, size_min)
ClampScale(self, size_min, size_max) == Rat(self.max_size, size_max)

\* Resize.generate_scale: <<im_scale_x, im_scale_y>>; hw is im.shape[:2]
generate_scale(self, hw) ==
    IF self.max_size /= 0 /\ self.arch \in scale_set
    THEN LET im_size_min == Min2(hw[1], hw[2])
             im_size_max == Max2(hw[1], hw[2])
             im_scale == Rat(self.target_size, im_size_min)
             clamped == IF RoundHalfEven(RatMulInt(im_scale, im_size_max))
                            > self.max_size
                        THEN ClampScale(self, im_size_min, im_size_max)
                        ELSE im_scale
         IN  <<clamped, clamped>>
    ELSE <<Rat(self.target_size, hw[2]), Rat(self.target_size, hw[1])>>

----------------------------------------------------------------------------
(* PadStride.                                                              *)

PadStrideInit(stride) == [type |-> "PadStride", coarsest_stride |-> stride]

\* PadStride.__call__ on a CHW array
PadStrideCall(self, im, im_info) ==
    IF self.coarsest_stride = 0 THEN Single(im)
    ELSE LET im_c == im.shape[1]
             im_h == im.shape[2]
             im_w == im.shape[3]
             pad_h == PadTo(im_h, self.coarsest_stride)
             pad_w == PadTo(im_w, self.coarsest_stride)
             padding_im ==
                 [shape |-> <<im_c, pad_h, pad_w>>,
                  at |-> [p \in Idx(<<im_c, pad_h, pad_w>>) |->
                             IF p[2] <= im_h /\ p[3] <= im_w
                             THEN im.at[p] ELSE 0]]
         IN  Pair(padding_im,
                  [im_info EXCEPT !.resize_shape = <<pad_h, pad_w>>])

----------------------------------------------------------------------------
(* Resize.__call__ and Permute.                                            *)

\* cv2.resize / Image.resize to h x w.  The model's images are uniform, so
\* every interpolation method gives the value of the nearest source element.
Resample(im, h, w) ==
    [shape |-> <<h, w, im.shape[3]>>,
     at |-> [p \in Idx(<<h, w, im.shape[3]>>) |->
                im.at[<<((p[1] - 1) * im.shape[1]) \div h + 1,
                        ((p[2] - 1) * im.shape[2]) \div w + 1,
                        p[3]>>]]]

\* padding_im[:im_h, :im_w, :] = im on a max_size x max_size canvas of zeros
PasteOnCanvas(im, max_size) ==
    [shape |-> <<max_size, max_size, im.shape[3]>>,
     at |-> [p \in Idx(<<max_size, max_size, im.shape[3]>>) |->
                IF p[1] <= im.shape[1] /\ p[2] <= im.shape[2]
                THEN im.at[p] ELSE 0]]

\* Resize.__call__ on an HWC array
ResizeCall(self, im, im_info) ==
    LET scale == generate_scale(self, <<im.shape[1], im.shape[2]>>)
        im_scale_x == scale[1]
        im_scale_y == scale[2]
        new_h == IF self.use_cv2
                 THEN RoundHalfEven(RatMulInt(im_scale_y, im.shape[1]))
                 ELSE IntOf(RatMulInt(im_scale_y, im.shape[1]))
        new_w == IF self.use_cv2
                 THEN RoundHalfEven(RatMulInt(im_scale_x, im.shape[2]))
                 ELSE IntOf(RatMulInt(im_scale_x, im.shape[2]))
    IN  IF ~self.use_cv2 /\ self.max_size /= 0 THEN Raise("TypeError:max_size")
        ELSE IF new_h = 0 \/ new_w = 0 THEN Raise("Error:empty_resize")
        ELSE
        LET resized == Resample(im, new_h, new_w)
            pad == self.max_size /= 0 /\ self.image_shape /= NoValue
        IN  IF pad /\ (new_h > self.max_size \/ new_w > self.max_size)
            THEN Raise("ValueError:broadcast")
            ELSE
            LET out == IF pad THEN PasteOnCanvas(resized, self.max_size)
                       ELSE resized
                info1 == IF self.arch \in scale_set
                         THEN [im_info EXCEPT !.scale = im_scale_x]
                         ELSE im_info
            IN  Pair(out, [info1 EXCEPT
                             !.resize_shape = <<out.shape[1], out.shape[2]>>])

PermuteInit(to_bgr, channel_first) ==
    [type |-> "Permute", to_bgr |-> to_bgr, channel_first |-> channel_first]

\* Permute.__call__
PermuteCall(self, im, im_info) ==
    LET chw == <<im.shape[3], im.shape[1], im.shape[2]>>
        t == IF self.channel_first
             THEN [shape |-> chw,
                   at |-> [p \in Idx(chw) |-> im.at[<<p[2], p[3], p[1]>>]]]
             ELSE im
        bgr == <<3, t.shape[2], t.shape[3]>>
    IN  IF self.to_bgr /\ t.shape[1] < 3 THEN Raise("IndexError")
        ELSE IF self.to_bgr
        THEN Pair([shape |-> bgr,
                   at |-> [p \in Idx(bgr) |-> t.at[<<4 - p[1], p[2], p[3]>>]]],
                  im_info)
        ELSE Pair(t, im_info)

\* Normalize.__init__
NormalizeInit(mean, std, is_scale, is_channel_first) ==
    [type |-> "Normalize", mean |-> mean, std |-> std,
     is_scale |-> is_scale, is_channel_first |-> is_channel_first]

\* (v / 255.0 - mean) / std of one element, as a rational
NormalizeValue(v, mean, std, is_scale) ==
    LET x == IF is_scale THEN Rat(v, 255) ELSE Rat(v, 1)
        d == Rat(x[1] * mean[2] - mean[1] * x[2], x[2] * mean[2])
    IN  Rat(d[1] * std[2], d[2] * std[1])

\* Normalize.__call__: mean and std lie along the channel axis the operator
\* was told of; `im -= mean` works in place, so that axis has to be as long
\* as mean (or mean has one entry)
NormalizeCall(self, im, im_info) ==
    LET axis == IF self.is_channel_first THEN 1 ELSE 3
        n == Len(self.mean)
    IN  IF n /= 1 /\ n /= im.shape[axis] THEN Raise("ValueError:broadcast")
        ELSE Pair([shape |-> im.shape,
                   at |-> [p \in Idx(im.shape) |->
                              LET c == IF n = 1 THEN 1 ELSE p[axis]
                              IN  NormalizeValue(im.at[p], self.mean[c],
                                                 self.std[c], self.is_scale)]],
                  im_info)

\* operator(im, im_info) for a constructed operator
OperatorCall(self, im, im_info) ==
    CASE self.type = "Resize" -> ResizeCall(self, im, im_info)
      [] self.type = "Normalize" -> NormalizeCall(self, im, im_info)
      [] self.type = "Permute" -> PermuteCall(self, im, im_info)
      [] self.type = "PadStride" -> PadStrideCall(self, im, im_info)

----------------------------------------------------------------------------
(* create_inputs.                                                          *)

\* create_inputs(im, im_info, model_arch): the dict of named tensors
create_inputs(im, im_info, model_arch) ==
    LET origin_shape == im_info.origin_shape
        resize_shape == im_info.resize_shape
        scale == im_info.scale
        image == ("image" :> im)
    IN  IF StrIn(YOLO, model_arch)
        THEN image
             @@ ("origin_shape" :> <<origin_shape[2], origin_shape[1]>>)
             @@ ("resize_shape" :> <<resize_shape[2], resize_shape[1]>>)
        ELSE IF StrIn(RetinaNet, model_arch)
        THEN image @@ ("im_info" :> resize_shape \o <<scale>>)
        ELSE IF StrIn(RCNN, model_arch)
        THEN image
             @@ ("im_info" :> resize_shape \o <<scale>>)
             @@ ("im_shape" :> origin_shape \o <<Rat(1, 1)>>)
        ELSE image

----------------------------------------------------------------------------
(* Config.                                                                 *)

support_models_without_face == <<YOLO, SSD, RetinaNet, RCNN>>
support_models == <<YOLO, SSD, RetinaNet, RCNN, Face>>

RECURSIVE CheckFrom(_, _)
CheckFrom(arch, k) ==
    IF k > Len(support_models) THEN FALSE
    ELSE IF StrIn(support_models[k], arch) THEN TRUE
    ELSE CheckFrom(arch, k + 1)

\* Config.check_model: TRUE, or FALSE for `raise ValueError`
check_model(yml_conf) == CheckFrom(yml_conf.arch, 1)

\* Config.__init__ on the parsed infer_cfg.yml
ConfigInit(yml_conf) ==
    IF ~check_model(yml_conf) THEN Raise("ValueError:arch")
    ELSE [kind |-> "Config",
          arch |-> yml_conf.arch,
          preprocess_infos |-> yml_conf.Preprocess,
          use_python_inference |-> yml_conf.use_python_inference,
          mode |-> yml_conf.mode,
          draw_threshold |-> yml_conf.draw_threshold]

----------------------------------------------------------------------------
(* Detector construction.                                                  *)

\* load_predictor
load_predictor(run_mode, use_gpu) ==
    IF ~use_gpu /\ run_mode /= "fluid" THEN Raise("ValueError:use_gpu")
    ELSE IF run_mode = "trt_int8" THEN Raise("ValueError:trt_int8")
    ELSE [kind |-> "predictor", use_gpu |-> use_gpu,
          tensorrt |-> run_mode \in {"trt_fp32", "trt_fp16"}]

\* load_executor
load_executor(use_gpu) == [kind |-> "executor", use_gpu |-> use_gpu]

\* eval(op_type)(**op_info), with arch added for Resize
MakeOperator(op_info, arch) ==
    CASE op_info.type = "Resize" ->
             ResizeInit(arch, op_info.target_size, op_info.max_size,
                        op_info.use_cv2, NoValue)
      [] op_info.type = "Normalize" ->
             NormalizeInit(op_info.mean, op_info.std, op_info.is_scale,
                           op_info.is_channel_first)
      [] op_info.type = "Permute" ->
             PermuteInit(op_info.to_bgr, op_info.channel_first)
      [] op_info.type = "PadStride" -> PadStrideInit(op_info.stride)

\* Detector.__init__
DetectorInit(cfg, use_gpu, run_mode) ==
    LET backend == IF cfg.use_python_inference THEN load_executor(use_gpu)
                   ELSE load_predictor(run_mode, use_gpu)
    IN  IF backend.kind = "raise" THEN backend
        ELSE [kind |-> "Detector",
              backend |-> backend,
              preprocess_ops |->
                  [k \in 1..Len(cfg.preprocess_infos) |->
                      MakeOperator(cfg.preprocess_infos[k], cfg.arch)]]

----------------------------------------------------------------------------
(* Detector.preprocess.                                                    *)

\* decode_image on an array already in memory
decode_image(im) == Pair(im, DecodedInfo(<<im.shape[1], im.shape[2]>>))

\* `im, im_info = operator(im, im_info)`: a single array unpacks along its
\* first axis, which needs exactly two rows; the second one then stands
\* where the im_info dict is read.
Unpack(r) ==
    IF r.kind /= "array" THEN r
    ELSE IF r.im.shape[1] /= 2 THEN Raise("ValueError:unpack")
    ELSE Raise("IndexError:im_info")

RECURSIVE ApplyOperators(_, _, _)
ApplyOperators(ops, k, state) ==
    IF state.kind = "raise" \/ k > Len(ops) THEN state
    ELSE ApplyOperators(ops, k + 1,
                        Unpack(OperatorCall(ops[k], state.im, state.im_info)))

\* Detector.preprocess: the inputs dict and im_info, or the exception
preprocess(self, arch, im) ==
    LET done == ApplyOperators(self.preprocess_ops, 1, decode_image(im))
    IN  IF done.kind = "raise" THEN done
        ELSE [kind |-> "inputs",
              inputs |-> create_inputs(done.im, done.im_info, arch),
              im_info |-> done.im_info]

----------------------------------------------------------------------------
(* Output tensors: shape, element type and rows (data[k] is row k: a       *)
(* number for a rank-1 tensor, a 4-tuple for a rank-2 tensor).             *)

Tensor(shape, dtype, data) ==
    [bound |-> TRUE, shape |-> shape, dtype |-> dtype, data |-> data]

\* a local name that was never assigned
Unbound == [bound |-> FALSE]

BoxTensor(n) ==
    Tensor(<<n, 4>>, "float32", [k \in 1..n |-> <<k, k, k + 1, k + 1>>])
ScoreTensor(v) == Tensor(<<Len(v)>>, "float32", v)
ClassTensor(n) == Tensor(<<n>>, "int32", [k \in 1..n |-> 10 + k])

\* scores and thresholds the model is run with (in hundredths)
ScoreVals == {-1, 5, 7}
Thresholds == {-1, 0, 5, 7}

ScoreVectors(n) == [1..n -> ScoreVals]

----------------------------------------------------------------------------
(* Detector.postprocess.                                                   *)

\* scores > threshold, one element
AtLeast(score, threshold) == score >= threshold
Above(score, threshold) == score > threshold

\* a[mask] for a boolean mask of the length of a
RECURSIVE MaskRows(_, _, _)
MaskRows(data, mask, k) ==
    IF k > Len(data) THEN <<>>
    ELSE (IF mask[k] THEN <<data[k]>> ELSE <<>>) \o MaskRows(data, mask, k + 1)

BoolIndex(t, mask) ==
    LET rows == MaskRows(t.data, mask, 1)
    IN  [t EXCEPT !.data = rows, !.shape[1] = Len(rows)]

Results(boxes, scores, classes) ==
    [kind |-> "results", boxes |-> boxes, scores |-> scores,
     classes |-> classes]

\* Detector.postprocess (im_info is not read)
postprocess(boxes, scores, classes, threshold) ==
    LET expect_boxes ==
            [k \in 1..Len(scores.data) |-> Above(scores.data[k], threshold)]
        n == Len(expect_boxes)
    IN  IF threshold > 0 /\ (Len(boxes.data) /= n \/ Len(classes.data) /= n)
        THEN Raise("IndexError")
        ELSE LET b == IF threshold > 0 THEN BoolIndex(boxes, expect_boxes)
                      ELSE boxes
                 s == IF threshold > 0 THEN BoolIndex(scores, expect_boxes)
                      ELSE scores
                 c == IF threshold > 0 THEN BoolIndex(classes, expect_boxes)
                      ELSE classes
             IN  \* the print loop reads classes[i], scores[i] for each box
                 IF Len(b.data) > Len(c.data) \/ Len(b.data) > Len(s.data)
                 THEN Raise("IndexError")
                 ELSE Results(b, s, c)

----------------------------------------------------------------------------
(* Detector.predict: the pieces.                                           *)

\* `for i in range(n)`: is there another iteration
InRangeInclusive(k, n) == k <= n
InRange(k, n) == k < n

\* the local names of one predict call, none assigned yet
NoLocals ==
    [np_boxes |-> NoValue, outs |-> Unbound, boxes |-> Unbound,
     scores |-> Unbound, classes |-> Unbound]

\* outs (the executor's list), outs0..outs2 (the predictor's tensors)
Fetched(outs) == [bound |-> TRUE, items |-> outs]

\* one step of `for o in [outs0, outs1, outs2]`
ClassifyOne(l, o) ==
    IF Len(o.shape) = 2 THEN [l EXCEPT !.boxes = o]
    ELSE IF o.dtype = "float32" THEN [l EXCEPT !.scores = o]
    ELSE [l EXCEPT !.classes = o]

\* the classification loop over the three output tensors
Classify(l, outs) == ClassifyOne(ClassifyOne(ClassifyOne(l, outs[1]), outs[2]), outs[3])

\* `scores[0] < 0`
SentinelAnyNegative(scores) == \E k \in 1..Len(scores.data) : scores.data[k] < 0
Sentinel(scores) == scores.data[1] < 0

\* results = {'boxes': np.array([])}
EmptyResults ==
    [kind |-> "results", boxes |-> Tensor(<<0>>, "float64", <<>>)]

\* lines 556-562 on the local names of the call: the value returned, or
\* the exception
SentinelAndPostprocess(l, threshold) ==
    IF ~l.scores.bound THEN Raise("NameError")
    ELSE IF Len(l.scores.data) = 0 THEN Raise("IndexError")
    ELSE IF Sentinel(l.scores) THEN EmptyResults
    ELSE IF ~l.boxes.bound \/ ~l.classes.bound THEN Raise("NameError")
    ELSE postprocess(l.boxes, l.scores, l.classes, threshold)

\* the latency printed after the timed loop: ms per batch image on the
\* executor, seconds per image on the predictor (the clock counts seconds)
MeanLatency(use_python_inference, t1, t2, repeats) ==
    IF use_python_inference
    THEN [unit |-> "ms", value |-> Rat((t2 - t1) * 1000, repeats)]
    ELSE [unit |-> "s", value |-> Rat(t2 - t1, repeats)]

----------------------------------------------------------------------------
(* The environments the process is started in.                             *)

\* Preprocess entries of infer_cfg.yml
ResizeInfo(target_size, max_size, use_cv2) ==
    [type |-> "Resize", target_size |-> target_size, max_size |-> max_size,
     use_cv2 |-> use_cv2]
PermuteInfo == [type |-> "Permute", to_bgr |-> FALSE, channel_first |-> TRUE]
PadStrideInfo(stride) == [type |-> "PadStride", stride |-> stride]
\* mean [0.5, 0.5, 0.5], std [0.25, 0.25, 0.25] on an HWC image
NormalizeInfo ==
    [type |-> "Normalize",
     mean |-> <<Rat(1, 2), Rat(1, 2), Rat(1, 2)>>,
     std |-> <<Rat(1, 4), Rat(1, 4), Rat(1, 4)>>,
     is_scale |-> TRUE, is_channel_first |-> FALSE]

Recipes ==
    { <<ResizeInfo(2, 0, TRUE), PermuteInfo, PadStrideInfo(2)>>,
      <<ResizeInfo(2, 0, TRUE), NormalizeInfo, PermuteInfo,
        PadStrideInfo(2)>>,
      <<ResizeInfo(2, 3, TRUE), PermuteInfo, PadStrideInfo(2)>>,
      <<ResizeInfo(2, 0, FALSE), PermuteInfo>>,
      <<ResizeInfo(2, 3, FALSE), PermuteInfo>>,
      <<ResizeInfo(2, 0, TRUE), PermuteInfo, PadStrideInfo(0)>> }

Modes == {"fluid", "trt_fp32", "trt_fp16", "trt_int8"}

\* decoded images have three channels
ImageChannels == 3

Images == { Uniform(<<h, w, ImageChannels>>) :
            h \in 1..MaxDim, w \in 1..MaxDim }

\* what the model returns for the image: three unlabelled tensors
OutputTensors(n) ==
    {BoxTensor(n), ClassTensor(n)}
        \cup { ScoreTensor(v) : v \in [1..n -> {-1, 7}] }

Outputs == UNION { OutputTensors(n) \X OutputTensors(n) \X OutputTensors(n) :
                   n \in 1..MaxDetections }

WellFormedOutputs == <<BoxTensor(2), ScoreTensor(<<7, 5>>), ClassTensor(2)>>

Environment(arch, recipe, python, mode, threshold, gpu, image, w, r, f, o) ==
    [yml |-> [arch |-> arch, Preprocess |-> recipe,
              use_python_inference |-> python, mode |-> mode,
              draw_threshold |-> threshold],
     use_gpu |-> gpu, image |-> image, warmup |-> w, repeats |-> r,
     frames |-> f, outs |-> o]

BaseArch == <<"Y", "O", "L", "O", "v", "4">>
BaseRecipe == <<ResizeInfo(2, 0, TRUE), PermuteInfo, PadStrideInfo(2)>>
BaseImage == Uniform(<<2, 3, ImageChannels>>)

\* every configuration, on every image, one frame, one well-formed output
ConfigEnvs ==
    { Environment(a, r, py, m, 5, g, im, 0, 1, 1, WellFormedOutputs) :
      a \in ArchSamples, r \in Recipes, py \in BOOLEAN, m \in Modes,
      g \in BOOLEAN, im \in Images }

\* every output triple, on both backends
OutputEnvs ==
    { Environment(BaseArch, BaseRecipe, py, "fluid", t, FALSE, BaseImage,
                  0, 1, 1, o) :
      py \in BOOLEAN, t \in {0, 5}, o \in Outputs }

\* every warmup/repeats/frames, on both backends
BenchEnvs ==
    { Environment(BaseArch, BaseRecipe, py, "fluid", 5, FALSE, BaseImage,
                  w, r, f, WellFormedOutputs) :
      py \in BOOLEAN, w \in 0..MaxWarmup, r \in 1..MaxRepeats,
      f \in 1..MaxFrames }

----------------------------------------------------------------------------
(* The process: Config, Detector, then one predict call per frame.         *)

Init ==
    /\ env \in ConfigEnvs \cup OutputEnvs \cup BenchEnvs
    /\ pc = "start"
    /\ config = NoValue
    /\ detector = NoValue
    /\ error = NoValue
    /\ calls = 0
    /\ inputs = NoValue
    /\ i = 0
    /\ clock = 0
    /\ timer = NoValue
    /\ locals = NoLocals
    /\ results = NoValue
    /\ events = <<>>
    /\ args = NoValue
    /\ ret = NoValue

\* an uncaught exception ends the process
Fail(exc, phase) ==
    /\ pc' = "failed"
    /\ error' = [kind |-> "raise", type |-> exc.type, phase |-> phase]

\* config = Config(FLAGS.model_dir)
LoadConfig ==
    /\ pc = "start"
    /\ LET c == ConfigInit(env.yml)
       IN  IF c.kind = "raise"
           THEN Fail(c, "Config") /\ UNCHANGED config
           ELSE config' = c /\ pc' = "configured" /\ UNCHANGED error
    /\ UNCHANGED <<env, detector, calls, inputs, i, clock, timer, locals,
                   results, events, args, ret>>

\* detector = Detector(model_dir, config, use_gpu, run_mode=config.mode)
ConstructDetector ==
    /\ pc = "configured"
    /\ LET d == DetectorInit(config, env.use_gpu, config.mode)
       IN  IF d.kind = "raise"
           THEN Fail(d, "Detector") /\ UNCHANGED detector
           ELSE detector' = d /\ pc' = "idle" /\ UNCHANGED error
    /\ UNCHANGED <<env, config, calls, inputs, i, clock, timer, locals,
                   results, events, args, ret>>

\* detector.predict(image, draw_threshold, warmup, repeats): preprocess
PredictBegin ==
    /\ pc = "idle"
    /\ calls < env.frames
    /\ LET pre == preprocess(detector, config.arch, env.image)
       IN  IF pre.kind = "raise"
           THEN Fail(pre, "predict") /\ UNCHANGED inputs
           ELSE inputs' = pre /\ pc' = "warmup" /\ UNCHANGED error
    /\ i' = 0
    /\ clock' = clock + 1
    /\ timer' = NoValue
    /\ locals' = NoLocals
    /\ results' = NoValue
    /\ events' = <<"preprocess">>
    /\ UNCHANGED <<env, config, detector, calls, args, ret>>

\* one iteration of `for i in range(warmup)`
WarmupRun ==
    /\ pc = "warmup"
    /\ InRange(i, env.warmup)
    /\ i' = i + 1
    /\ clock' = clock + 1
    /\ locals' = [locals EXCEPT !.outs = Fetched(env.outs)]
    /\ events' = Append(events, "run")
    /\ UNCHANGED <<env, pc, config, detector, error, calls, inputs, timer,
                   results, args, ret>>

\* t1 = time.time()
TimerStart ==
    /\ pc = "warmup"
    /\ ~InRange(i, env.warmup)
    /\ pc' = "timed"
    /\ i' = 0
    /\ timer' = [kind |-> "running", t1 |-> clock]
    /\ events' = Append(events, "t1")
    /\ UNCHANGED <<env, config, detector, error, calls, inputs, clock,
                   locals, results, args, ret>>

\* one iteration of `for i in range(repeats)`; on the predictor it ends
\* with the classification loop
TimedRun ==
    /\ pc = "timed"
    /\ InRange(i, env.repeats)
    /\ i' = i + 1
    /\ clock' = clock + 1
    /\ LET l == [locals EXCEPT !.outs = Fetched(env.outs)]
       IN  locals' = IF config.use_python_inference THEN l
                     ELSE Classify(l, env.outs)
    /\ events' = Append(events, "run")
    /\ UNCHANGED <<env, pc, config, detector, error, calls, inputs, timer,
                   results, args, ret>>

\* t2 = time.time() and the printed latency; the executor branch then
\* assigns np_boxes (and nothing to boxes, scores, classes)
TimerStop ==
    /\ pc = "timed"
    /\ ~InRange(i, env.repeats)
    /\ pc' = "sentinel"
    /\ timer' = [kind |-> "stopped", t1 |-> timer.t1, t2 |-> clock,
                 printed |-> MeanLatency(config.use_python_inference,
                                         timer.t1, clock, env.repeats)]
    /\ locals' = IF config.use_python_inference
                 THEN [locals EXCEPT !.np_boxes = env.outs[1]]
                 ELSE locals
    /\ events' = Append(events, "t2")
    /\ UNCHANGED <<env, config, detector, error, calls, inputs, i, clock,
                   results, args, ret>>

\* the sentinel check, postprocess and return
PredictReturn ==
    /\ pc = "sentinel"
    /\ LET r == SentinelAndPostprocess(locals, config.draw_threshold)
       IN  IF r.kind = "raise"
           THEN Fail(r, "predict") /\ UNCHANGED <<results, calls>>
                /\ events' = Append(events, "raise")
           ELSE /\ results' = r
                /\ pc' = "idle"
                /\ calls' = calls + 1
                /\ events' = Append(events, IF r = EmptyResults
                                            THEN "no_object"
                                            ELSE "postprocess")
                /\ UNCHANGED error
    /\ clock' = clock + 1
    /\ UNCHANGED <<env, config, detector, inputs, i, timer, locals, args,
                   ret>>

Next ==
    \/ LoadConfig
    \/ ConstructDetector
    \/ PredictBegin
    \/ WarmupRun
    \/ TimerStart
    \/ TimedRun
    \/ TimerStop
    \/ PredictReturn

Spec == Init /\ [][Next]_vars

----------------------------------------------------------------------------
(* Life cycle variables at rest (used by the direct-call specifications).  *)

LifecycleAtRest ==
    /\ env = NoValue
    /\ pc = "rest"
    /\ config = NoValue
    /\ detector = NoValue
    /\ error = NoValue
    /\ calls = 0
    /\ inputs = NoValue
    /\ i = 0
    /\ clock = 0
    /\ timer = NoValue
    /\ locals = NoLocals
    /\ results = NoValue
    /\ events = <<>>

----------------------------------------------------------------------------
(* Direct call of Resize.generate_scale.                                   *)

InitResize ==
    /\ LifecycleAtRest
    /\ args \in { [fn |-> "generate_scale",
                   self |-> ResizeInit(a, t, m, TRUE, NoValue),
                   hw |-> <<h, w>>] :
                  a \in ArchSamples, t \in 1..MaxTarget, m \in 0..MaxSize,
                  h \in 1..MaxDim, w \in 1..MaxDim }
    /\ ret = NoValue

CallGenerateScale ==
    /\ args.fn = "generate_scale"
    /\ ret = NoValue
    /\ ret' = [kind |-> "scale", xy |-> generate_scale(args.self, args.hw)]
    /\ UNCHANGED <<args, lifecycleVars>>

SpecResize == InitResize /\ [][CallGenerateScale]_vars

----------------------------------------------------------------------------
(* Direct call of Resize.__call__ on a decoded (HWC) image.                *)

InitResizeCall ==
    /\ LifecycleAtRest
    /\ args \in { [fn |-> "Resize",
                   self |-> ResizeInit(a, t, m, cv, NoValue),
                   im |-> im,
                   im_info |-> DecodedInfo(<<im.shape[1], im.shape[2]>>)] :
                  a \in ArchSamples, t \in 1..MaxTarget, m \in 0..MaxSize,
                  cv \in BOOLEAN, im \in Images }
    /\ ret = NoValue

CallResize ==
    /\ args.fn = "Resize"
    /\ ret = NoValue
    /\ ret' = ResizeCall(args.self, args.im, args.im_info)
    /\ UNCHANGED <<args, lifecycleVars>>

SpecResizeCall == InitResizeCall /\ [][CallResize]_vars

----------------------------------------------------------------------------
(* Direct call of PadStride.                                               *)

InitPad ==
    /\ LifecycleAtRest
    /\ args \in { [fn |-> "PadStride",
                   self |-> PadStrideInit(s),
                   im |-> im,
                   im_info |-> DecodedInfo(<<im.shape[2], im.shape[3]>>)] :
                  s \in 0..MaxStride,
                  im \in UNION { TestImages(<<c, hh, ww>>) :
                                 c \in 1..MaxChannels, hh \in 1..MaxDim,
                                 ww \in 1..MaxDim } }
    /\ ret = NoValue

CallPadStride ==
    /\ args.fn = "PadStride"
    /\ ret = NoValue
    /\ ret' = PadStrideCall(args.self, args.im, args.im_info)
    /\ UNCHANGED <<args, lifecycleVars>>

SpecPad == InitPad /\ [][CallPadStride]_vars

----------------------------------------------------------------------------
(* Direct call of Detector.postprocess.                                    *)

InitPost ==
    /\ LifecycleAtRest
    /\ args \in { [fn |-> "postprocess",
                   boxes |-> BoxTensor(nb),
                   scores |-> ScoreTensor(v),
                   classes |-> ClassTensor(nc),
                   threshold |-> t] :
                  nb \in 0..MaxDetections, nc \in 0..MaxDetections,
                  v \in UNION { ScoreVectors(n) : n \in 0..MaxDetections },
                  t \in Thresholds }
    /\ ret = NoValue

CallPostprocess ==
    /\ args.fn = "postprocess"
    /\ ret = NoValue
    /\ ret' = postprocess(args.boxes, args.scores, args.classes,
                          args.threshold)
    /\ UNCHANGED <<args, lifecycleVars>>

SpecPost == InitPost /\ [][CallPostprocess]_vars

----------------------------------------------------------------------------
(* Claims about Detector.predict.                                          *)

\* the current predict call has returned or raised after its timed loop
CallEnded ==
    /\ events /= <<>>
    /\ events[Len(events)] \in {"no_object", "postprocess", "raise"}

UniquelyClassifiable(outs) ==
    /\ Cardinality({ k \in 1..3 : Len(outs[k].shape) = 2 }) = 1
    /\ Cardinality({ k \in 1..3 : Len(outs[k].shape) /= 2
                                  /\ outs[k].dtype = "float32" }) = 1
    /\ Cardinality({ k \in 1..3 : Len(outs[k].shape) /= 2
                                  /\ outs[k].dtype /= "float32" }) = 1

\* C3 (as claimed): for well-formed raw outputs, on either backend, predict
\* reaches the sentinel check with boxes, scores and classes assigned and
\* returns the result of the sentinel rule and postprocess on them.
C3_BackendsAgree ==
    UniquelyClassifiable(env.outs) =>
        /\ pc = "sentinel" =>
               locals.boxes.bound /\ locals.scores.bound /\ locals.classes.bound
        /\ CallEnded =>
               /\ pc = "idle"
               /\ results = SentinelAndPostprocess(
                                Classify(NoLocals, env.outs),
                                env.yml.draw_threshold)

\* C6 (as claimed): on the predictor, outputs that cannot be assigned
\* uniquely to boxes/scores/classes make the call fail with an error.
C6_AmbiguityFailsLoudly ==
    (CallEnded /\ ~config.use_python_inference
               /\ ~UniquelyClassifiable(env.outs)) => pc = "failed"

Runs(n) == [k \in 1..n |-> "run"]

\* what one complete call does up to the end of the timed loop
Protocol ==
    <<"preprocess">> \o Runs(env.warmup) \o <<"t1">> \o Runs(env.repeats)
        \o <<"t2">>

\* C5: in every predict call, on both backends, the predictor is invoked
\* warmup times after preprocessing and before the timer starts, then
\* repeats times before the timer stops, and nothing else happens in
\* between; postprocess comes after the timer stops; the printed latency
\* is the timed interval divided by repeats; the Detector is left as it was
\* constructed, so the next call goes through the same cycle.
C5_BenchmarkProtocol ==
    /\ pc = "warmup" =>
           i <= env.warmup /\ events = <<"preprocess">> \o Runs(i)
    /\ pc = "timed" =>
           /\ i <= env.repeats
           /\ events = <<"preprocess">> \o Runs(env.warmup) \o <<"t1">>
                           \o Runs(i)
    /\ timer.kind = "stopped" =>
           /\ SubSeq(events, 1, Len(Protocol)) = Protocol
           /\ Len(events) <= Len(Protocol) + 1
           /\ Cardinality({ k \in 1..Len(events) : events[k] = "run" })
                  = env.warmup + env.repeats
           /\ timer.t2 - timer.t1 = env.repeats
           /\ timer.printed.value[2] = env.repeats
           /\ timer.printed.value[1] =
                  (timer.t2 - timer.t1)
                      * (IF timer.printed.unit = "ms" THEN 1000 ELSE 1)
    /\ detector.kind = "Detector" =>
           detector = DetectorInit(config, env.use_gpu, config.mode)

\* C5 witness: a second call on the same Detector has stopped its timer
\* after one warmup and two timed invocations
C5_Witness_SecondCycle ==
    /\ calls = 1
    /\ pc = "sentinel"
    /\ env.warmup = 1
    /\ env.repeats = 2
    /\ timer.kind = "stopped"

----------------------------------------------------------------------------
(* Claims about configuration.                                             *)

ConfigurationErrors ==
    {"ValueError:arch", "ValueError:use_gpu", "ValueError:trt_int8",
     "TypeError:max_size"}

\* C4 (as claimed): a configuration error is raised while Config or
\* Detector is constructed, never inside a predict call.
C4_ConfigErrorsEager ==
    (pc = "failed" /\ error.type \in ConfigurationErrors) =>
        error.phase \in {"Config", "Detector"}

\* the family tags the claim lists
FiveFamilyTags == {YOLO, SSD, RetinaNet, RCNN, Face}

\* tag occurs in s at some offset
OccursIn(tag, s) ==
    \E k \in 0..(Len(s) - Len(tag)) :
        \A j \in 1..Len(tag) : s[k + j] = tag[j]

\* C7: once Config loading has run, the Config object exists (with the arch
\* of the file) if and only if arch contains one of the five family tags;
\* otherwise loading raised ValueError, no Config field was set, and no
\* Detector is ever built or run.  A Detector exists only for an accepted
\* arch.
C7_ConfigAccepts ==
    /\ pc /= "start" =>
           IF \E tag \in FiveFamilyTags : OccursIn(tag, env.yml.arch)
           THEN /\ config.kind = "Config"
                /\ config.arch = env.yml.arch
                /\ error /= NoValue => error.phase /= "Config"
           ELSE /\ config = NoValue
                /\ detector = NoValue
                /\ pc = "failed"
                /\ error = [kind |-> "raise", type |-> "ValueError:arch",
                            phase |-> "Config"]
                /\ events = <<>>
    /\ pc = "start" => config = NoValue /\ detector = NoValue

\* C7 witness: an arch in lower case was rejected
C7_Witness_Rejected ==
    /\ pc = "failed"
    /\ env.yml.arch = <<"y", "o", "l", "o">>
    /\ error.type = "ValueError:arch"

\* C8 (as claimed): create_inputs returns a tensor set only for an arch
\* that matches one of the families it assembles tensors for.
C8_CreateInputsRejects ==
    inputs.kind = "inputs" =>
        \E tag \in {YOLO, RetinaNet, RCNN} : OccursIn(tag, env.yml.arch)

----------------------------------------------------------------------------
(* Claims about Resize.generate_scale.                                     *)

\* a call of generate_scale that took the aspect-preserving branch returned
AspectCallReturned ==
    /\ ret.kind = "scale"
    /\ args.self.max_size > 0
    /\ args.self.arch \in {RCNN, RetinaNet}

\* C9: the aspect-preserving scale is one scalar for both axes; it is
\* target_size / min(H, W) unless round(that * max(H, W)) > max_size, and
\* then max_size / max(H, W); and scale * max(H, W) is at most
\* max_size + 1/2, so the rounded longest edge never exceeds max_size.
C9_AspectScaleBounded ==
    AspectCallReturned =>
        LET mn == Min2(args.hw[1], args.hw[2])
            mx == Max2(args.hw[1], args.hw[2])
            base == Rat(args.self.target_size, mn)
            sx == ret.xy[1]
            sy == ret.xy[2]
        IN  /\ sx = sy
            /\ IF RoundHalfEven(RatMulInt(base, mx)) > args.self.max_size
               THEN RatEq(sx, Rat(args.self.max_size, mx))
               ELSE RatEq(sx, base)
            /\ 2 * sx[1] * mx <= (2 * args.self.max_size + 1) * sx[2]
            /\ RoundHalfEven(RatMulInt(sx, mx)) <= args.self.max_size

\* C9 witness: an aspect-preserving call whose scale was clamped
C9_Witness_Clamped ==
    /\ AspectCallReturned
    /\ args.hw[1] /= args.hw[2]
    /\ ~RatEq(ret.xy[1], Rat(args.self.target_size,
                              Min2(args.hw[1], args.hw[2])))

----------------------------------------------------------------------------
(* Claims about PadStride.                                                 *)

\* n is the smallest multiple of s that is >= k
SmallestMultipleAtLeast(n, s, k) == n % s = 0 /\ n >= k /\ n - s < k

\* C10: with stride s > 0 the output dims are the smallest multiples of s
\* that are >= H and >= W, the channel count is kept, the input is unchanged
\* in the top-left H x W region of every channel, every other element is
\* zero, and resize_shape is the padded (H', W').
C10_PadStride ==
    (ret.kind = "pair" /\ args.fn = "PadStride") =>
        LET s == args.self.coarsest_stride
            H == args.im.shape[2]
            W == args.im.shape[3]
            out == ret.im
        IN  /\ s > 0
            /\ out.shape[1] = args.im.shape[1]
            /\ SmallestMultipleAtLeast(out.shape[2], s, H)
            /\ SmallestMultipleAtLeast(out.shape[3], s, W)
            /\ DOMAIN out.at = Idx(out.shape)
            /\ \A p \in Idx(out.shape) :
                   out.at[p] = IF p \in Idx(args.im.shape)
                               THEN args.im.at[p] ELSE 0
            /\ ret.im_info.resize_shape = <<out.shape[2], out.shape[3]>>
            /\ ret.im_info.origin_shape = args.im_info.origin_shape
            /\ ret.im_info.scale = args.im_info.scale

\* C10 witness: an image whose elements all differ was padded on both axes
C10_Witness_Padded ==
    /\ ret.kind = "pair"
    /\ args.fn = "PadStride"
    /\ args.im = Coded(args.im.shape)
    /\ ret.im.shape[2] > args.im.shape[2]
    /\ ret.im.shape[3] > args.im.shape[3]
    /\ args.im.shape[2] > args.self.coarsest_stride

----------------------------------------------------------------------------
(* Claims about Detector.postprocess.                                      *)

\* the input rows whose score is above the threshold
KeptRows == { k \in 1..Len(args.scores.data) :
              args.scores.data[k] > args.threshold }

\* the j-th kept row, in the original order
KeptRow(j) ==
    CHOOSE k \in KeptRows : Cardinality({ m \in KeptRows : m <= k }) = j

\* C2: with threshold t > 0 the three outputs have the same length, output
\* row j of each is the j-th input row (in the original order) whose score
\* is > t, so every kept score is > t and none above t is dropped; with
\* t <= 0 the three arrays are returned unchanged.
C2_PostprocessFilter ==
    ret.kind = "results" =>
        IF args.threshold > 0
        THEN /\ Len(ret.boxes.data) = Cardinality(KeptRows)
             /\ Len(ret.scores.data) = Cardinality(KeptRows)
             /\ Len(ret.classes.data) = Cardinality(KeptRows)
             /\ \A j \in 1..Cardinality(KeptRows) :
                    /\ ret.boxes.data[j] = args.boxes.data[KeptRow(j)]
                    /\ ret.scores.data[j] = args.scores.data[KeptRow(j)]
                    /\ ret.classes.data[j] = args.classes.data[KeptRow(j)]
                    /\ ret.scores.data[j] > args.threshold
        ELSE /\ ret.boxes = args.boxes
             /\ ret.scores = args.scores
             /\ ret.classes = args.classes

\* C2 witness: a filter that kept one row and dropped another, one of them
\* with a score equal to the threshold
C2_Witness_Filtered ==
    /\ ret.kind = "results"
    /\ args.threshold > 0
    /\ Len(args.scores.data) = 2
    /\ args.scores.data[1] = args.threshold
    /\ Len(ret.scores.data) = 1

----------------------------------------------------------------------------
(* Claims about Resize.__call__.                                           *)

\* the shape the resize gives the image: each axis times its scale factor,
\* rounded by cv2.resize, truncated by int() on the PIL path
ScaledShape ==
    LET xy == generate_scale(args.self, <<args.im.shape[1], args.im.shape[2]>>)
        h == RatMulInt(xy[2], args.im.shape[1])
        w == RatMulInt(xy[1], args.im.shape[2])
    IN  IF args.self.use_cv2 THEN <<RoundHalfEven(h), RoundHalfEven(w)>>
        ELSE <<IntOf(h), IntOf(w)>>

\* C11 (as claimed): when Resize returns, resize_shape is the unpadded
\* resized shape (the scaled H, W), also when max_size != 0 has pasted the
\* result into a max_size x max_size canvas of zeros.
C11_ResizeShapeUnpadded ==
    (ret.kind = "pair" /\ args.fn = "Resize") =>
        ret.im_info.resize_shape = ScaledShape

----------------------------------------------------------------------------
(* Claims about Detector.preprocess.                                       *)

\* the scale factors <<x, y>> the Detector's Resize operator applies to the
\* image of the call
AppliedScale ==
    generate_scale(detector.preprocess_ops[1],
                   <<env.image.shape[1], env.image.shape[2]>>)

\* C12 (as claimed): whenever create_inputs has emitted the packed im_info
\* vector [resize_H, resize_W, scale] (arch contains 'RetinaNet' or
\* 'RCNN'), Resize has applied one scale factor to both axes and the scale
\* in the vector is that factor: not the initial 1.0 next to another
\* factor, and not the x factor of a per-axis resize.
C12_ScaleConsistent ==
    (/\ inputs.kind = "inputs"
     /\ "im_info" \in DOMAIN inputs.inputs
     /\ detector.preprocess_ops[1].type = "Resize") =>
        /\ RatEq(AppliedScale[1], AppliedScale[2])
        /\ RatEq(inputs.inputs["im_info"][3], AppliedScale[1])

\* what the loop of Detector.preprocess holds when it comes to operator k
BeforeOperator(k) ==
    ApplyOperators(SubSeq(detector.preprocess_ops, 1, k - 1), 1,
                   decode_image(env.image))

\* the exceptions of `im, im_info = operator(im, im_info)` itself
UnpackErrors == {"ValueError:unpack", "IndexError:im_info"}

\* C13 (as claimed): once predict has run preprocess, every configured
\* operator that was called (PadStride with stride 0 included) returned an
\* (image, metadata) pair, and preprocess did not fail between two
\* operators, at the unpacking of what an operator returned.
C13_OperatorsReturnPairs ==
    (detector.kind = "Detector" /\ events /= <<>>) =>
        /\ \A k \in 1..Len(detector.preprocess_ops) :
               LET before == BeforeOperator(k)
               IN  before.kind = "pair" =>
                       OperatorCall(detector.preprocess_ops[k], before.im,
                                    before.im_info).kind /= "array"
        /\ error.kind = "raise" => error.type \notin UnpackErrors

====
